---- MODULE Spec2Model ----
(***************************************************************************)
(* basin3d.core.synthesis: the lazy cross-plugin result merger             *)
(* (DataSourceModelIterator) and the facade (DataSourceModelAccess.list /  *)
(* retrieve), as a state machine.                                          *)
(*                                                                         *)
(* Strings that the code takes apart (broker identifiers, id prefixes) are *)
(* sequences of one-character strings; opaque strings (datasource ids,     *)
(* message texts) are TLA+ strings.  A Python Optional[List] is a record   *)
(* [isNone, v].                                                            *)
(***************************************************************************)
EXTENDS Integers, Sequences, FiniteSets, TLC

----------------------------------------------------------------------------
(* Bounds of the model *)

\* longest broker identifier handed to retrieve
MaxIdLen == 4
\* longest local id that is composed and decomposed
MaxLocalLen == 3
\* most entries in a list of identifiers handed to _synthesize_query_identifiers
MaxEntries == 2
\* longest result sequence a plugin's list generator yields
MaxItems == 2
\* most messages in a trailing diagnostic payload
MaxPayload == 2
\* pulls the caller still makes after the first end-of-stream
PullsPastEnd == 2
\* recordings made directly on an iterator (info, warn, error, critical)
MaxRecorded == 2

----------------------------------------------------------------------------
(* Python values *)

NoneList == [isNone |-> TRUE, v |-> <<>>]
ListOf(s) == [isNone |-> FALSE, v |-> s]
\* truth value of an Optional[List]: None and [] are falsy
Truthy(l) == (~l.isNone) /\ l.v # <<>>

\* message levels (MessageLevelEnum)
WARN == "WARN"
ERROR == "ERROR"
CRITICAL == "CRITICAL"

----------------------------------------------------------------------------
(* The registered plugins: DataSourceModelAccess.plugins, a dict keyed by   *)
(* id_prefix, in registration order.                                        *)

PluginKeys == << <<"A">>, <<"B">> >>
Registered == {PluginKeys[i] : i \in DOMAIN PluginKeys}
\* a datasource name that no plugin is registered under
UnknownKey == <<"X">>

\* plugin.get_datasource().id
DatasourceId(key) ==
    CASE key = <<"A">> -> <<"Alpha">>
      [] key = <<"B">> -> <<"Beta">>
      [] OTHER -> <<"?">>

\* the concurrent top-level calls that can be told apart
CallIds == {1, 2}

VARIABLES
    plugin_access,          \* per registered key: what the plugin's view for the requested model does
    synthesis_model,        \* the facade's synthesis_model (its __name__)
    constructed,            \* per call: list() has returned an iterator
    query,                  \* per call: _synthesis_response.query
    messages,               \* per call: _synthesis_response.messages
    it_plugins,             \* per call: _plugins, the resolved plugin keys
    plugin_index,           \* per call: _plugin_index
    model_access_iterator,  \* per call: _model_access_iterator
    next_item,              \* per call: _next
    where,                  \* per call: _where
    where_context_token,    \* per call: _where_context_token
    basin3d_where,          \* monitor.basin3d_where, the ambient location context
    calls,                  \* history: every plugin capability invoked so far
    results,                \* history, per call: the outcome of each pull so far
    emitted_at,             \* history, per call: the _plugin_index at which each message was appended
    retrieved,              \* what retrieve() handed back: a SynthesisResponse or an exception
    recorded,               \* history: the info/warn/error/critical calls made on an iterator
    codec                   \* an identifier function, its input and (once applied) its result

vars == <<plugin_access, synthesis_model, constructed, query, messages, it_plugins,
          plugin_index, model_access_iterator, next_item, where, where_context_token,
          basin3d_where, calls, results, emitted_at, retrieved, recorded, codec>>

----------------------------------------------------------------------------
(* Strings *)

\* s.startswith(p)
StartsWith(s, p) == Len(s) >= Len(p) /\ SubSeq(s, 1, Len(p)) = p

\* s.find(old) + 1: where the first occurrence of old starts, 0 when there is none
FindFirst(s, old) ==
    LET hits == {i \in 1..Len(s) : i + Len(old) - 1 <= Len(s)
                                   /\ SubSeq(s, i, i + Len(old) - 1) = old}
    IN IF hits = {} THEN 0 ELSE CHOOSE i \in hits : \A j \in hits : i <= j

RECURSIVE RemoveFirst_Every(_, _)
\* mutant: s.replace(old, ""), every occurrence removed
RemoveFirst_Every(s, old) ==
    LET hits == {i \in 1..Len(s) : i + Len(old) - 1 <= Len(s)
                                   /\ SubSeq(s, i, i + Len(old) - 1) = old}
        i == CHOOSE i \in hits : \A j \in hits : i <= j
    IN IF hits = {} THEN s
       ELSE SubSeq(s, 1, i - 1) \o RemoveFirst_Every(SubSeq(s, i + Len(old), Len(s)), old)

\* s.replace(old, "", 1)
RemoveFirst(s, old) ==
    LET i == FindFirst(s, old)
    IN IF i = 0 THEN s ELSE SubSeq(s, 1, i - 1) \o SubSeq(s, i + Len(old), Len(s))

\* s.split("-")[0]
FirstToken(s) ==
    LET i == FindFirst(s, <<"-">>)
    IN IF i = 0 THEN s ELSE SubSeq(s, 1, i - 1)

\* extract_id: the broker identifier without its first token and separator
extract_id(identifier) ==
    IF identifier # <<>>
    THEN RemoveFirst(identifier, FirstToken(identifier) \o <<"-">>)
    ELSE identifier

\* retrieve: id_list = query.id.split("-"), then
\* datasource_pk = query.id.replace("{}-".format(id_list[0]), "", 1)
DatasourcePk(id) == RemoveFirst(id, FirstToken(id) \o <<"-">>)

RECURSIVE Split(_, _)
\* s.split(sep) for a one-character sep
Split(s, sep) ==
    LET i == FindFirst(s, <<sep>>)
    IN IF i = 0 THEN <<s>> ELSE <<SubSeq(s, 1, i - 1)>> \o Split(SubSeq(s, i + 1, Len(s)), sep)

\* the values handed to _synthesize_query_identifiers: one string or a sequence
StrValue(s) == [isStr |-> TRUE, v |-> s]
SeqValue(l) == [isStr |-> FALSE, v |-> l]

\* mutant: an entry is taken when it merely starts with the prefix
SelectIds_NoSeparator(values, id_prefix) ==
    LET sel == SelectSeq(values, LAMBDA x : StartsWith(x, id_prefix))
    IN [i \in DOMAIN sel |-> extract_id(sel[i])]

RECURSIVE SelectIds(_, _)
SelectIds(values, id_prefix) ==
    IF values = <<>> THEN <<>>
    ELSE LET rest == SelectIds(Tail(values), id_prefix)
         IN IF StartsWith(Head(values), id_prefix \o <<"-">>)
            THEN <<extract_id(Head(values))>> \o rest
            ELSE rest

\* _synthesize_query_identifiers
synthesize_query_identifiers(values, id_prefix) ==
    SelectIds(IF values.isStr THEN Split(values.v, ",") ELSE values.v, id_prefix)

----------------------------------------------------------------------------
(* Queries *)

\* plugin_access.datasource.id_prefix: the key the plugin is registered under
IdPrefix(key) == key

\* mutant: a feature filter is replaced only when some id of the plugin is found in it
SynthesizeMonitoringFeatureQuery_KeepsWhenEmpty(key, q) ==
    LET mf == synthesize_query_identifiers(SeqValue(q.monitoring_features.v), IdPrefix(key))
        pf == synthesize_query_identifiers(SeqValue(q.parent_features.v), IdPrefix(key))
        q1 == IF Truthy(q.monitoring_features) /\ mf # <<>>
              THEN [q EXCEPT !.monitoring_features = ListOf(mf)]
              ELSE q
    IN IF Truthy(q.parent_features) /\ pf # <<>>
       THEN [q1 EXCEPT !.parent_features = ListOf(pf)]
       ELSE q1

\* MonitoringFeatureAccess.synthesize_query
SynthesizeMonitoringFeatureQuery(key, q) ==
    LET q1 == IF Truthy(q.monitoring_features)
              THEN [q EXCEPT !.monitoring_features =
                       ListOf(synthesize_query_identifiers(SeqValue(q.monitoring_features.v),
                                                            IdPrefix(key)))]
              ELSE q
    IN IF Truthy(q.parent_features)
       THEN [q1 EXCEPT !.parent_features =
                ListOf(synthesize_query_identifiers(SeqValue(q.parent_features.v),
                                                     IdPrefix(key)))]
       ELSE q1

\* the members of TimeFrequencyEnum
TimeFrequencyEnum == {"YEAR", "MONTH", "DAY", "HOUR", "MINUTE", "SECOND"}

\* Enum.NAME: the member, or AttributeError when the enumeration has no such member
EnumMember(enum, name) ==
    IF name \in enum THEN [raised |-> FALSE, value |-> name]
    ELSE [raised |-> TRUE, value |-> ""]

RECURSIVE MapThrough(_, _)
\* a plugin mapping capability applied to a list of broker terms: the plugin
\* terms of each, in order; a term without a mapping contributes nothing
MapThrough(mapping, terms) ==
    IF terms = <<>> THEN <<>> ELSE mapping[Head(terms)] \o MapThrough(mapping, Tail(terms))

\* one invocation of a mapping capability of the plugin view, as synthesize_query makes it
Mapped(op, terms) == [op |-> op, terms |-> terms]

\* what synthesize_query hands back: the synthesized query or an exception, and
\* the mapping capabilities it invoked
Synthesized(q, mapped) == [raised |-> FALSE, exc |-> "", query |-> q, mapped |-> mapped]
SynthesisRaised(q, exc, mapped) == [raised |-> TRUE, exc |-> exc, query |-> q, mapped |-> mapped]

\* MeasurementTimeseriesTVPObservationAccess.synthesize_query
SynthesizeTimeseriesQuery(key, view, q) ==
    LET q1 == IF Truthy(q.monitoring_features)
              THEN [q EXCEPT !.monitoring_features =
                       ListOf(synthesize_query_identifiers(SeqValue(q.monitoring_features.v),
                                                            IdPrefix(key)))]
              ELSE q
        opv == Truthy(q.observed_property_variables)
        q2 == IF opv
              THEN [q1 EXCEPT !.observed_property_variables =
                       ListOf(MapThrough(view.opv, q.observed_property_variables.v))]
              ELSE q1
        m2 == IF opv
              THEN <<Mapped("get_observed_properties", q.observed_property_variables.v)>>
              ELSE <<>>
        q3 == [q2 EXCEPT !.aggregation_duration = q.aggregation_duration]
        none == EnumMember(TimeFrequencyEnum, "NONE")
    IN IF opv /\ view.mapRaises
       THEN SynthesisRaised(q1, "PluginError", m2)
       ELSE IF none.raised
       THEN SynthesisRaised(q3, "AttributeError", m2)
       ELSE IF q3.aggregation_duration # none.value
            THEN IF Truthy(q.statistic)
                 THEN Synthesized([q3 EXCEPT !.aggregation_duration = "DAY",
                                             !.statistic = ListOf(MapThrough(view.stat,
                                                                             q.statistic.v))],
                                  Append(m2, Mapped("get_mapped_attributes", q.statistic.v)))
                 ELSE Synthesized([q3 EXCEPT !.aggregation_duration = "DAY"], m2)
            ELSE Synthesized(q3, m2)

\* self._model_access.synthesize_query(plugin_view, query)
synthesize_query(model, key, view, q) ==
    IF model = "MeasurementTimeseriesTVPObservation"
    THEN SynthesizeTimeseriesQuery(key, view, q)
    ELSE Synthesized(SynthesizeMonitoringFeatureQuery(key, q), <<>>)

\* synthesized_query = query.copy(): the caller's query once the fields of the
\* copy have been assigned.  The copy is an object of its own.
OriginalAfterCopy(original, synthesized) == original

\* a query that was never built (no call argument)
NoQuery == [id |-> <<>>, datasource |-> NoneList,
            monitoring_features |-> NoneList, parent_features |-> NoneList,
            observed_property_variables |-> NoneList, aggregation_duration |-> "DAY",
            statistic |-> NoneList]

----------------------------------------------------------------------------
(* Plugins: what a registered plugin's view for the requested model does.  *)
(*   inViews    synthesis_model in plugin.get_plugin_access()               *)
(*   hasList    hasattr(view, "list")                                       *)
(*   hasGet     hasattr(view, "get")                                        *)
(*   listRaises view.list(query=...) raises before returning a sequence     *)
(*   items      the truth value of each object the list generator yields    *)
(*   end        how the generator ends after its items: kind is             *)
(*                "return"       plain return (StopIteration.value is None) *)
(*                "empty_args"   returns an object whose args is empty      *)
(*                "list"         returns an object whose args[0] is a list  *)
(*                               of n messages                              *)
(*                "not_list"     returns an object whose args[0] is no      *)
(*                               list, tuple or set                         *)
(*                "no_args"      returns a truthy object without args       *)
(*                "raise"        raises an exception                        *)
(*   getResult  what view.get(query=...) does: "obj", "none" or "raise"     *)
(*   opv        per broker variable, the plugin variables it maps to        *)
(*   stat       per broker statistic, the plugin attribute ids it maps to   *)
(*   mapRaises  view.get_observed_properties(...) raises                    *)

EndKinds == {"return", "empty_args", "list", "not_list", "no_args", "raise"}

Ends == {[kind |-> k, n |-> 0] : k \in EndKinds \ {"list"}}
        \cup {[kind |-> "list", n |-> n] : n \in 0..MaxPayload}

RECURSIVE SeqsUpTo(_, _)
\* the sequences over S of length at most n
SeqsUpTo(S, n) ==
    IF n = 0 THEN {<<>>}
    ELSE LET shorter == SeqsUpTo(S, n - 1)
         IN shorter \cup {Append(t, x) : t \in {u \in shorter : Len(u) = n - 1}, x \in S}

ItemScripts == SeqsUpTo(BOOLEAN, MaxItems)

\* the broker vocabulary: observed property variables and statistics
BrokerVariables == {"Acetate", "Aluminum"}
Statistics == {"MEAN", "MAX"}

\* a plugin that maps no broker term
NoMapping(terms) == [x \in terms |-> <<>>]

Plugin(inViews, hasList, hasGet, listRaises, items, end, getResult) ==
    [inViews |-> inViews, hasList |-> hasList, hasGet |-> hasGet, listRaises |-> listRaises,
     items |-> items, end |-> end, getResult |-> getResult,
     opv |-> NoMapping(BrokerVariables), stat |-> NoMapping(Statistics), mapRaises |-> FALSE]

\* the plugin with its mapping capabilities: get_observed_properties over opv,
\* get_mapped_attributes(STATISTIC, ...) over stat
WithMappings(plugin, opv, stat) == [plugin EXCEPT !.opv = opv, !.stat = stat]

\* the plugin whose get_observed_properties raises
WithFailingMapping(plugin) == [plugin EXCEPT !.mapRaises = TRUE]

PlainEnd == [kind |-> "return", n |-> 0]

\* the plugins a merge is checked against: the get side is left at its default
ListBehaviours ==
    {Plugin(FALSE, FALSE, FALSE, FALSE, <<>>, PlainEnd, "obj"),
     Plugin(TRUE, FALSE, TRUE, FALSE, <<>>, PlainEnd, "obj"),
     Plugin(TRUE, TRUE, TRUE, TRUE, <<>>, PlainEnd, "obj")}
    \cup {Plugin(TRUE, TRUE, TRUE, FALSE, items, end, "obj") : items \in ItemScripts, end \in Ends}

\* the text of the i-th message of a trailing diagnostic payload
PayloadTexts == <<"payload 1", "payload 2", "payload 3", "payload 4">>
PayloadMessage(i) == PayloadTexts[i]

----------------------------------------------------------------------------
(* The per-plugin result sequence: a Python generator *)

NoIterator == [isNone |-> TRUE, key |-> <<>>, pos |-> 0, finished |-> FALSE]
NoItem == [isNone |-> TRUE, src |-> <<>>, n |-> 0, truthy |-> FALSE]
\* the n-th object plugin key yields
Item(key, n, truthy) == [isNone |-> FALSE, src |-> key, n |-> n, truthy |-> truthy]

\* view.list(query=...): a fresh generator, nothing of its body run yet
OpenIterator(key) == [isNone |-> FALSE, key |-> key, pos |-> 0, finished |-> FALSE]

\* next(generator): [kind, item, end, iter], kind "yield", "stop" (StopIteration, with
\* the returned value's shape in end) or "raise".  A generator that has returned or
\* raised is finished, and from then on stops with no value.
GeneratorNext(pa, iter) ==
    LET script == pa[iter.key]
    IN CASE iter.finished ->
              [kind |-> "stop", item |-> NoItem, end |-> PlainEnd, iter |-> iter]
         [] ~iter.finished /\ iter.pos < Len(script.items) ->
              [kind |-> "yield",
               item |-> Item(iter.key, iter.pos + 1, script.items[iter.pos + 1]),
               end |-> PlainEnd,
               iter |-> [iter EXCEPT !.pos = @ + 1]]
         [] ~iter.finished /\ iter.pos >= Len(script.items) /\ script.end.kind = "raise" ->
              [kind |-> "raise", item |-> NoItem, end |-> script.end,
               iter |-> [iter EXCEPT !.finished = TRUE]]
         [] OTHER ->
              [kind |-> "stop", item |-> NoItem, end |-> script.end,
               iter |-> [iter EXCEPT !.finished = TRUE]]

----------------------------------------------------------------------------
(* MessageSink *)

\* a location path [datasource id, entity-type name]; NoWhere is Python's None
NoWhere == [isNone |-> TRUE, datasource |-> <<>>, model |-> ""]
Where(ds, model) == [isNone |-> FALSE, datasource |-> ds, model |-> model]

\* MonitorMixin.log: the SynthesisMessage it builds when a level is given
SynthesisMessage(msg, level, loc) == [msg |-> msg, level |-> level, where |-> loc]

\* mutant: the message is tagged with the ambient location context
Log_AmbientWhere(s, msg, level) ==
    [s EXCEPT !.messages = Append(@, SynthesisMessage(msg, level, s.ctx)),
              !.at = Append(@, s.plugin_index)]

\* DataSourceModelIterator.log with a level: the message is appended to the
\* response, tagged with the iterator's _where
Log(s, msg, level) ==
    [s EXCEPT !.messages = Append(@, SynthesisMessage(msg, level, s.where)),
              !.at = Append(@, s.plugin_index)]

\* mutant: the iterator's log hands on the where argument of warn(), which no
\* caller sets, instead of its own _where
IteratorWarn_WhereArgument(s, msg) ==
    [s EXCEPT !.messages = Append(@, SynthesisMessage(msg, WARN, NoWhere)),
              !.at = Append(@, s.plugin_index)]

\* DataSourceModelIterator.warn / error
IteratorWarn(s, msg) == Log(s, msg, WARN)
IteratorError(s, msg) == Log(s, msg, ERROR)

\* level=None, the default of log()
NoLevel == "None"

\* mutant: a SynthesisMessage is built and appended whether or not a level is given
IteratorLog_AlwaysBuilds(s, msg, level) == Log(s, msg, level)

\* DataSourceModelIterator.log: MonitorMixin.log builds the message "if level:",
\* and it is appended "if synthesis_message:"
IteratorLog(s, msg, level) == IF level # NoLevel THEN Log(s, msg, level) ELSE s

\* DataSourceModelIterator.info / critical
IteratorInfo(s, msg) == IteratorLog(s, msg, NoLevel)
IteratorCritical(s, msg) == IteratorLog(s, msg, CRITICAL)

\* the four recording methods of the MonitorMixin, by name
SinkMethods == {"info", "warn", "error", "critical"}
SinkCall(s, method, msg) ==
    CASE method = "warn" -> IteratorWarn(s, msg)
      [] method = "error" -> IteratorError(s, msg)
      [] method = "critical" -> IteratorCritical(s, msg)
      [] OTHER -> IteratorInfo(s, msg)

RECURSIVE WarnEach_LastFirst(_, _, _)
\* mutant: the warnings are surfaced from the last to the first
WarnEach_LastFirst(s, i, n) ==
    IF i > n THEN s ELSE IteratorWarn(WarnEach_LastFirst(s, i + 1, n), PayloadMessage(i))

RECURSIVE WarnEach(_, _, _)
\* for m in se.value.args[0]: self.warn(message=m)
WarnEach(s, i, n) ==
    IF i > n THEN s ELSE WarnEach(IteratorWarn(s, PayloadMessage(i)), i + 1, n)

\* monitor.set_ctx_basin3d_where(where): sets the ambient location and returns
\* the token that restores the value it replaced
SetCtxWhere(s, loc) ==
    [s EXCEPT !.token = [isNone |-> FALSE, old |-> s.ctx], !.ctx = loc]

\* monitor.basin3d_where.reset(token)
ResetCtxWhere(s) == [s EXCEPT !.ctx = s.token.old]

NoToken == [isNone |-> TRUE, old |-> NoWhere]

----------------------------------------------------------------------------
(* DataSourceModelIterator *)

\* the plugin capability invocations recorded in calls
\* (seen: how many messages the response held when the capability was invoked)
Call(call, op, key, pos, arg, outcome, seen) ==
    [call |-> call, op |-> op, key |-> key, pos |-> pos, arg |-> arg, outcome |-> outcome,
     seen |-> seen]

\* what a pull hands back to the caller (pos: the _plugin_index it ended at)
ReturnItem(s, item) ==
    [s |-> s, result |-> [kind |-> "item", item |-> item, exc |-> "", pos |-> s.plugin_index]]
RaiseStopIteration(s) ==
    [s |-> s, result |-> [kind |-> "stop", item |-> NoItem, exc |-> "", pos |-> s.plugin_index]]
Propagate(s, exc) ==
    [s |-> s, result |-> [kind |-> "raise", item |-> NoItem, exc |-> exc, pos |-> s.plugin_index]]

\* mutant: the registered plugins that the filter names, in registration order
ResolvePlugins_RegistrationOrder(q) ==
    IF ~Truthy(q.datasource)
    THEN PluginKeys
    ELSE SelectSeq(PluginKeys, LAMBDA k : \E i \in DOMAIN q.datasource.v : q.datasource.v[i] = k)

\* __init__: the plugins the iterator will visit
ResolvePlugins(q) ==
    IF ~Truthy(q.datasource)
    THEN PluginKeys
    ELSE SelectSeq(q.datasource.v, LAMBDA d : d \in Registered)

\* except StopIteration as se: the warnings the sub-iterator returned.
\* (end.kind = "no_args" does not get here: se.value.args raises)
SurfaceWarnings(s, end) ==
    CASE end.kind = "list" -> WarnEach(s, 1, end.n)
      [] end.kind = "not_list" ->
            IteratorWarn(s, "Synthesis generated warnings but they are in the wrong format")
      [] OTHER -> s

\* mutant: the list view is taken to exist whenever the model is in the plugin's views
HasListView_NoAttrCheck(view) == view.inViews

\* "if self._model_access.synthesis_model in plugin_views and hasattr(..., "list")"
HasListView(view) == view.inViews /\ view.hasList

\* mutant: the query handed to synthesize_query is the one synthesized for the
\* plugin listed before, when there is one
QueryToSynthesize_Previous(env, s) ==
    LET mine == {i \in DOMAIN s.calls : s.calls[i].call = env.call /\ s.calls[i].op = "list"}
    IN IF mine = {} THEN s.query
       ELSE s.calls[CHOOSE i \in mine : \A j \in mine : j <= i].arg

\* the query argument of synthesize_query: self._synthesis_response.query
QueryToSynthesize(env, s) == s.query

\* mutant: an exception of the try block is swallowed without a message
ExceptException_Silent(s) == s

\* except Exception as e: self.error(f"Unexpected Error({e.__class__.__name__}): {str(e)}")
ExceptException(s) == IteratorError(s, "Unexpected Error")

\* mutant: the synthesized query keeps the datasource filter it came with
ForceDatasource_KeepCaller(key, q) == q

\* synthesized_query_params.datasource = [plugin.get_datasource().id]
ForceDatasource(key, q) == [q EXCEPT !.datasource = ListOf(<<DatasourceId(key)>>)]

\* __next__, the body of "if self._plugin_index < len(self._plugins)":
\* location set, then the try block
VisitPlugin(env, s) ==
    LET key == env.plugins[s.plugin_index + 1]
        loc == Where(DatasourceId(key), env.model)
        s1 == SetCtxWhere([s EXCEPT !.where = loc], loc)
        view == env.pa[key]
        syn == synthesize_query(env.model, key, view, QueryToSynthesize(env, s))
        synthesized == ForceDatasource(key, syn.query)
        mapped == [i \in DOMAIN syn.mapped |->
                      Call(env.call, syn.mapped[i].op, key, s.plugin_index,
                           [NoQuery EXCEPT !.observed_property_variables =
                                               ListOf(syn.mapped[i].terms)],
                           IF syn.raised /\ syn.exc = "PluginError" /\ i = Len(syn.mapped)
                           THEN "raise" ELSE "ok",
                           Len(s.messages))]
        s2 == [s1 EXCEPT !.calls = @ \o mapped]
        listed(outcome) ==
            [s2 EXCEPT !.calls = Append(@, Call(env.call, "list", key, s.plugin_index,
                                                synthesized, outcome, Len(s.messages))),
                       !.query = OriginalAfterCopy(s.query, synthesized)]
    IN IF HasListView(view)
       THEN CASE syn.raised ->
                   ExceptException([s2 EXCEPT !.query = OriginalAfterCopy(s.query, syn.query)])
              [] ~syn.raised /\ view.listRaises ->
                   ExceptException(listed("raise"))
              [] OTHER -> [listed("ok") EXCEPT !.iter = OpenIterator(key)]
       ELSE IteratorWarn(s1, "Plugin view does not exist")

\* "Are there any more plugins?"
MorePlugins(s, plugins) == s.plugin_index < Len(plugins)

RECURSIVE NextLoop(_, _)
RECURSIVE AdvancePlugin(_, _)

\* __next__, the while loop from its top
NextLoop(env, s) ==
    IF ~s.iter.isNone
    THEN LET g == GeneratorNext(env.pa, s.iter)
             s1 == [s EXCEPT !.iter = g.iter,
                             !.calls = Append(@, Call(env.call, "next", s.iter.key,
                                                      s.plugin_index, NoQuery, g.kind,
                                                      Len(s.messages)))]
         IN CASE g.kind = "yield" ->
                   IF g.item.truthy
                   THEN ReturnItem([s1 EXCEPT !.nxt = g.item], g.item)
                   ELSE AdvancePlugin(env, [s1 EXCEPT !.nxt = g.item])
              [] g.kind = "raise" -> Propagate(s1, "PluginError")
              [] g.kind = "stop" /\ g.end.kind = "no_args" -> Propagate(s1, "AttributeError")
              [] OTHER -> AdvancePlugin(env, SurfaceWarnings(s1, g.end))
    ELSE AdvancePlugin(env, s)

\* mutant: the iterator rewinds when it runs out of plugins
AdvancePlugin_Rewind(env, s) ==
    LET s1 == [s EXCEPT !.plugin_index = @ + 1, !.iter = NoIterator]
    IN IF MorePlugins(s1, env.plugins)
       THEN NextLoop(env, VisitPlugin(env, s1))
       ELSE RaiseStopIteration([s1 EXCEPT !.plugin_index = -1])

\* __next__, from "Setup to get the data from the next data source plugin"
AdvancePlugin(env, s) ==
    LET s1 == [s EXCEPT !.plugin_index = @ + 1, !.iter = NoIterator]
    IN IF MorePlugins(s1, env.plugins)
       THEN NextLoop(env, VisitPlugin(env, s1))
       ELSE RaiseStopIteration(IF ~s1.token.isNone THEN ResetCtxWhere(s1) ELSE s1)

\* the iterator's fields, as __next__ reads them
IteratorState(c) ==
    [plugin_index |-> plugin_index[c], iter |-> model_access_iterator[c], nxt |-> next_item[c],
     where |-> where[c], token |-> where_context_token[c], messages |-> messages[c],
     ctx |-> basin3d_where, calls |-> calls, query |-> query[c], at |-> emitted_at[c]]

Env(c) == [call |-> c, pa |-> plugin_access, model |-> synthesis_model,
           plugins |-> it_plugins[c]]

\* DataSourceModelIterator.__next__
DoNext(c) == NextLoop(Env(c), IteratorState(c))

----------------------------------------------------------------------------
(* Operations *)

\* a datasource filter names at most as many datasources as are registered
MaxFilter == Len(PluginKeys)

\* the datasource filters a caller passes: none, or up to MaxFilter names
Filters == {NoneList} \cup {ListOf(f) : f \in SeqsUpTo(Registered \cup {UnknownKey}, MaxFilter)}

ListQueries == {[NoQuery EXCEPT !.datasource = f] : f \in Filters}

\* the iterator's fields as __init__ leaves them
Constructed(q, ctx, log) ==
    [plugin_index |-> -1, iter |-> NoIterator, nxt |-> NoItem, where |-> NoWhere,
     token |-> NoToken, messages |-> <<>>, ctx |-> ctx, calls |-> log, query |-> q, at |-> <<>>]

\* mutant: list() pulls the first element before it returns
List_Eager(c, q) ==
    /\ ~constructed[c]
    /\ constructed' = [constructed EXCEPT ![c] = TRUE]
    /\ it_plugins' = [it_plugins EXCEPT ![c] = ResolvePlugins(q)]
    /\ \E r \in {NextLoop([call |-> c, pa |-> plugin_access, model |-> synthesis_model,
                            plugins |-> ResolvePlugins(q)],
                           Constructed(q, basin3d_where, calls))} :
          /\ query' = [query EXCEPT ![c] = r.s.query]
          /\ emitted_at' = [emitted_at EXCEPT ![c] = r.s.at]
          /\ plugin_index' = [plugin_index EXCEPT ![c] = r.s.plugin_index]
          /\ model_access_iterator' = [model_access_iterator EXCEPT ![c] = r.s.iter]
          /\ next_item' = [next_item EXCEPT ![c] = r.s.nxt]
          /\ where' = [where EXCEPT ![c] = r.s.where]
          /\ where_context_token' = [where_context_token EXCEPT ![c] = r.s.token]
          /\ messages' = [messages EXCEPT ![c] = r.s.messages]
          /\ basin3d_where' = r.s.ctx
          /\ calls' = r.s.calls
    /\ UNCHANGED <<recorded, plugin_access, synthesis_model, results, retrieved, codec>>

\* DataSourceModelAccess.list(query): DataSourceModelIterator.__init__
List(c, q) ==
    /\ ~constructed[c]
    /\ constructed' = [constructed EXCEPT ![c] = TRUE]
    /\ query' = [query EXCEPT ![c] = q]
    /\ messages' = [messages EXCEPT ![c] = <<>>]
    /\ it_plugins' = [it_plugins EXCEPT ![c] = ResolvePlugins(q)]
    /\ plugin_index' = [plugin_index EXCEPT ![c] = -1]
    /\ model_access_iterator' = [model_access_iterator EXCEPT ![c] = NoIterator]
    /\ next_item' = [next_item EXCEPT ![c] = NoItem]
    /\ where' = [where EXCEPT ![c] = NoWhere]
    /\ where_context_token' = [where_context_token EXCEPT ![c] = NoToken]
    /\ emitted_at' = [emitted_at EXCEPT ![c] = <<>>]
    /\ UNCHANGED <<recorded, plugin_access, synthesis_model, basin3d_where, calls, results, retrieved,
                   codec>>

\* the pulls so far that reported end-of-stream
StopsSeen(c) == Cardinality({i \in DOMAIN results[c] : results[c][i].kind = "stop"})

\* next(iterator): one pull by the caller
Pull(c) ==
    /\ constructed[c]
    /\ StopsSeen(c) <= PullsPastEnd
    /\ \E r \in {DoNext(c)} :
          /\ plugin_index' = [plugin_index EXCEPT ![c] = r.s.plugin_index]
          /\ model_access_iterator' = [model_access_iterator EXCEPT ![c] = r.s.iter]
          /\ next_item' = [next_item EXCEPT ![c] = r.s.nxt]
          /\ where' = [where EXCEPT ![c] = r.s.where]
          /\ where_context_token' = [where_context_token EXCEPT ![c] = r.s.token]
          /\ messages' = [messages EXCEPT ![c] = r.s.messages]
          /\ basin3d_where' = r.s.ctx
          /\ calls' = r.s.calls
          /\ results' = [results EXCEPT ![c] = Append(@, r.result)]
          /\ query' = [query EXCEPT ![c] = r.s.query]
          /\ emitted_at' = [emitted_at EXCEPT ![c] = r.s.at]
    /\ UNCHANGED <<recorded, plugin_access, synthesis_model, constructed, it_plugins, retrieved,
                   codec>>

\* the texts handed to the recording methods
SinkTexts == {"note", "Plugin view does not exist"}

\* iterator.info / warn / error / critical (message): one recording made on the
\* iterator of call c
Record(c, method, msg) ==
    /\ constructed[c]
    /\ Len(recorded) < MaxRecorded
    /\ \E s \in {SinkCall(IteratorState(c), method, msg)} :
          /\ messages' = [messages EXCEPT ![c] = s.messages]
          /\ emitted_at' = [emitted_at EXCEPT ![c] = s.at]
          /\ recorded' = Append(recorded, [call |-> c, method |-> method, msg |-> msg,
                                           where |-> where[c],
                                           before |-> Len(messages[c]),
                                           after |-> Len(s.messages)])
    /\ UNCHANGED <<plugin_access, synthesis_model, constructed, query, it_plugins, plugin_index,
                   model_access_iterator, next_item, where, where_context_token, basin3d_where,
                   calls, results, retrieved, codec>>

----------------------------------------------------------------------------
(* DataSourceModelAccess.retrieve *)

NoData == [isNone |-> TRUE, src |-> <<>>, id |-> <<>>]
\* the object plugin key's get returns for a local id
Data(key, pk) == [isNone |-> FALSE, src |-> key, id |-> pk]

\* the outcome of retrieve(asked): nothing yet, a response, or an exception
NotCalled == [kind |-> "none", asked |-> NoQuery, query |-> NoQuery, data |-> NoData,
              messages |-> <<>>, exc |-> ""]
\* return SynthesisResponse(query=query, data=..., messages=...)
SynthesisResponse(q, data, msgs) ==
    [kind |-> "response", asked |-> q, query |-> q, data |-> data, messages |-> msgs, exc |-> ""]
\* an exception leaves retrieve(q)
Raised(q, exc) ==
    [kind |-> "raise", asked |-> q, query |-> NoQuery, data |-> NoData, messages |-> <<>>,
     exc |-> exc]

\* "if self.synthesis_model in plugin_views" of retrieve
HasGetView(view) == view.inViews

\* mutant: the plugin's get is handed the untranslated broker identifier
RetrieveFrom_BrokerId(key, q, pa, model, log) ==
    LET loc == Where(DatasourceId(key), model)
        view == pa[key]
        synthesized_query == [q EXCEPT !.datasource = ListOf(<<DatasourceId(key)>>)]
        called == Append(log, Call(0, "get", key, 0, synthesized_query,
                                   IF view.getResult = "raise" THEN "raise" ELSE "ok", 0))
    IN IF HasGetView(view)
       THEN CASE ~view.hasGet ->
                   [out |-> Raised(q, "AttributeError"), ctx |-> loc, calls |-> log]
              [] view.hasGet /\ view.getResult = "raise" ->
                   [out |-> Raised(q, "PluginError"), ctx |-> loc, calls |-> called]
              [] view.hasGet /\ view.getResult = "none" ->
                   [out |-> SynthesisResponse(q, NoData, <<>>), ctx |-> loc, calls |-> called]
              [] OTHER ->
                   [out |-> SynthesisResponse(q, Data(key, q.id), <<>>),
                    ctx |-> loc, calls |-> called]
       ELSE [out |-> SynthesisResponse(q, NoData,
                        <<SynthesisMessage("Plugin view does not exist", WARN, loc)>>),
             ctx |-> loc, calls |-> log]

\* retrieve, the branch taken when the prefix names a registered plugin:
\* [out, ctx, calls]
RetrieveFrom(key, q, pa, model, log) ==
    LET datasource_pk == DatasourcePk(q.id)
        loc == Where(DatasourceId(key), model)
        view == pa[key]
        synthesized_query == [q EXCEPT !.id = datasource_pk,
                                       !.datasource = ListOf(<<DatasourceId(key)>>)]
        after == OriginalAfterCopy(q, synthesized_query)
        called == Append(log, Call(0, "get", key, 0, synthesized_query,
                                   IF view.getResult = "raise" THEN "raise" ELSE "ok", 0))
    IN IF HasGetView(view)
       THEN CASE ~view.hasGet ->
                   [out |-> Raised(q, "AttributeError"), ctx |-> loc, calls |-> log]
              [] view.hasGet /\ view.getResult = "raise" ->
                   [out |-> Raised(q, "PluginError"), ctx |-> loc, calls |-> called]
              [] view.hasGet /\ view.getResult = "none" ->
                   [out |-> [SynthesisResponse(q, NoData, <<>>) EXCEPT !.query = after],
                    ctx |-> loc, calls |-> called]
              [] OTHER ->
                   [out |-> [SynthesisResponse(q, Data(key, datasource_pk), <<>>)
                                EXCEPT !.query = after],
                    ctx |-> loc, calls |-> called]
       ELSE [out |-> SynthesisResponse(q, NoData,
                        <<SynthesisMessage("Plugin view does not exist", WARN, loc)>>),
             ctx |-> loc, calls |-> log]

\* mutant: the KeyError of the plugin lookup is not caught
DoRetrieve_KeyErrorEscapes(q, pa, model, ctx, log) ==
    IF q.id # <<>>
    THEN IF FirstToken(q.id) \in Registered
         THEN RetrieveFrom(FirstToken(q.id), q, pa, model, log)
         ELSE [out |-> Raised(q, "KeyError"), ctx |-> ctx, calls |-> log]
    ELSE [out |-> SynthesisResponse(q, NoData, <<>>), ctx |-> ctx, calls |-> log]

\* DataSourceModelAccess.retrieve(query): [out, ctx, calls]
DoRetrieve(q, pa, model, ctx, log) ==
    IF q.id # <<>>
    THEN IF FirstToken(q.id) \in Registered
         THEN RetrieveFrom(FirstToken(q.id), q, pa, model, log)
         ELSE [out |-> SynthesisResponse(q, NoData,
                          <<SynthesisMessage("DataSource not not found for id", ERROR, NoWhere)>>),
               ctx |-> ctx, calls |-> log]
    ELSE [out |-> SynthesisResponse(q, NoData, <<>>), ctx |-> ctx, calls |-> log]

\* the characters of the broker identifiers handed to retrieve
IdChars == {"A", "B", "X", "-", "7"}
RetrieveQueries == {[NoQuery EXCEPT !.id = i] : i \in SeqsUpTo(IdChars, MaxIdLen)}

\* the plugins a retrieve is checked against: the list side is left at its default
GetBehaviours ==
    {Plugin(FALSE, FALSE, FALSE, FALSE, <<>>, PlainEnd, "obj"),
     Plugin(TRUE, TRUE, FALSE, FALSE, <<>>, PlainEnd, "obj")}
    \cup {Plugin(TRUE, TRUE, TRUE, FALSE, <<>>, PlainEnd, g) : g \in {"obj", "none", "raise"}}

Retrieve(q) ==
    /\ retrieved.kind = "none"
    /\ \E r \in {DoRetrieve(q, plugin_access, synthesis_model, basin3d_where, calls)} :
          /\ retrieved' = r.out
          /\ basin3d_where' = r.ctx
          /\ calls' = r.calls
    /\ UNCHANGED <<recorded, plugin_access, synthesis_model, constructed, query, messages, it_plugins,
                   plugin_index, model_access_iterator, next_item, where, where_context_token,
                   results, emitted_at, codec>>

----------------------------------------------------------------------------
(* IdentifierCodec: the identifier functions applied on their own *)

\* the composite identifier "prefix-localId"
Compose(prefix, local) == prefix \o <<"-">> \o local

\* ",".join(values)
RECURSIVE Join(_)
Join(values) ==
    IF values = <<>> THEN <<>>
    ELSE IF Len(values) = 1 THEN Head(values)
    ELSE Head(values) \o <<",">> \o Join(Tail(values))

NotApplied == [kind |-> "none", fn |-> "", prefix |-> <<>>, local |-> <<>>,
               values |-> <<>>, out |-> <<>>]

\* the local ids that are composed with a registered prefix
LocalIds == SeqsUpTo(IdChars, MaxLocalLen)

\* the entries of an identifier list: matching, other prefix, longer prefix, no
\* separator, separator inside the local id, leading separator, empty, empty local id
Entries ==
    {<<"A", "-", "1">>, <<"B", "-", "1">>, <<"A", "B", "-", "1">>, <<"A", "1">>,
     <<"A", "-", "B", "-", "2">>, <<"-", "A", "-", "1">>, <<>>, <<"A", "-">>}

\* the prefixes _synthesize_query_identifiers is asked for
GivenPrefixes == Registered \cup {<<"A", "B">>}

CodecInputs ==
    {[NotApplied EXCEPT !.kind = "id", !.prefix = p, !.local = l] :
        p \in Registered, l \in LocalIds}
    \cup {[NotApplied EXCEPT !.kind = "list", !.prefix = p, !.values = v] :
        p \in GivenPrefixes, v \in SeqsUpTo(Entries, MaxEntries)}

\* retrieve's decomposition of the composite identifier: the plugin key looked
\* up and the primary key handed to the plugin
DecomposeForRetrieve ==
    /\ codec.kind = "id" /\ codec.fn = ""
    /\ codec' = [codec EXCEPT !.fn = "retrieve",
                              !.out = <<FirstToken(Compose(codec.prefix, codec.local)),
                                        DatasourcePk(Compose(codec.prefix, codec.local))>>]
    /\ UNCHANGED <<recorded, plugin_access, synthesis_model, constructed, query, messages, it_plugins,
                   plugin_index, model_access_iterator, next_item, where, where_context_token,
                   basin3d_where, calls, results, emitted_at, retrieved>>

\* _synthesize_query_identifiers on the one composite identifier
DecomposeForQuery ==
    /\ codec.kind = "id" /\ codec.fn = ""
    /\ codec' = [codec EXCEPT !.fn = "query",
                              !.out = synthesize_query_identifiers(
                                          SeqValue(<<Compose(codec.prefix, codec.local)>>),
                                          codec.prefix)]
    /\ UNCHANGED <<recorded, plugin_access, synthesis_model, constructed, query, messages, it_plugins,
                   plugin_index, model_access_iterator, next_item, where, where_context_token,
                   basin3d_where, calls, results, emitted_at, retrieved>>

\* _synthesize_query_identifiers on a sequence of identifiers
ExtractManyFromSequence ==
    /\ codec.kind = "list" /\ codec.fn = ""
    /\ codec' = [codec EXCEPT !.fn = "sequence",
                              !.out = synthesize_query_identifiers(SeqValue(codec.values),
                                                                   codec.prefix)]
    /\ UNCHANGED <<recorded, plugin_access, synthesis_model, constructed, query, messages, it_plugins,
                   plugin_index, model_access_iterator, next_item, where, where_context_token,
                   basin3d_where, calls, results, emitted_at, retrieved>>

\* _synthesize_query_identifiers on the identifiers joined by commas
ExtractManyFromString ==
    /\ codec.kind = "list" /\ codec.fn = ""
    /\ codec' = [codec EXCEPT !.fn = "string",
                              !.out = synthesize_query_identifiers(StrValue(Join(codec.values)),
                                                                   codec.prefix)]
    /\ UNCHANGED <<recorded, plugin_access, synthesis_model, constructed, query, messages, it_plugins,
                   plugin_index, model_access_iterator, next_item, where, where_context_token,
                   basin3d_where, calls, results, emitted_at, retrieved>>

----------------------------------------------------------------------------
(* Specifications *)

\* no call made yet
InitIdle ==
    /\ constructed = [c \in CallIds |-> FALSE]
    /\ query = [c \in CallIds |-> NoQuery]
    /\ messages = [c \in CallIds |-> <<>>]
    /\ it_plugins = [c \in CallIds |-> <<>>]
    /\ plugin_index = [c \in CallIds |-> -1]
    /\ model_access_iterator = [c \in CallIds |-> NoIterator]
    /\ next_item = [c \in CallIds |-> NoItem]
    /\ where = [c \in CallIds |-> NoWhere]
    /\ where_context_token = [c \in CallIds |-> NoToken]
    /\ basin3d_where = NoWhere
    /\ calls = <<>>
    /\ results = [c \in CallIds |-> <<>>]
    /\ emitted_at = [c \in CallIds |-> <<>>]
    /\ retrieved = NotCalled
    /\ recorded = <<>>

InitCalls ==
    /\ synthesis_model = "MonitoringFeature"
    /\ InitIdle
    /\ codec = NotApplied

Init ==
    /\ plugin_access \in [Registered -> ListBehaviours]
    /\ InitCalls

InitRetrieve ==
    /\ plugin_access \in [Registered -> GetBehaviours]
    /\ InitCalls

NextRetrieve == \E q \in RetrieveQueries : Retrieve(q)

\* one retrieve() against every combination of plugins
SpecRetrieve == InitRetrieve /\ [][NextRetrieve]_vars

InitCodec ==
    /\ plugin_access = [k \in Registered |->
                           Plugin(TRUE, TRUE, TRUE, FALSE, <<>>, PlainEnd, "obj")]
    /\ synthesis_model = "MonitoringFeature"
    /\ InitIdle
    /\ codec \in CodecInputs

NextCodec ==
    \/ DecomposeForRetrieve
    \/ DecomposeForQuery
    \/ ExtractManyFromSequence
    \/ ExtractManyFromString

\* the identifier functions applied to every input of the bounded sets
SpecCodec == InitCodec /\ [][NextCodec]_vars

\* the facades: MonitoringFeatureAccess and MeasurementTimeseriesTVPObservationAccess
SynthesisModels == {"MonitoringFeature", "MeasurementTimeseriesTVPObservation"}

\* the plugin mappings of observed property variables: none, one variable
\* mapped, one variable mapped to two plugin variables
VariableMaps ==
    {NoMapping(BrokerVariables),
     [v \in BrokerVariables |-> IF v = "Acetate" THEN <<"ACT">> ELSE <<>>],
     [v \in BrokerVariables |-> IF v = "Acetate" THEN <<"ACT">> ELSE <<"Al", "AL">>]}

\* the plugin mappings of statistics: none, or each to one attribute id
StatisticMaps ==
    {NoMapping(Statistics),
     [x \in Statistics |-> IF x = "MEAN" THEN <<"mean">> ELSE <<"max">>]}

\* the plugins a translation is checked against: each lists one object and has a get
TranslateBehaviours ==
    {WithMappings(Plugin(TRUE, TRUE, TRUE, FALSE, <<TRUE>>, PlainEnd, "obj"), opv, stat) :
        opv \in VariableMaps, stat \in StatisticMaps}
    \cup {WithFailingMapping(Plugin(TRUE, TRUE, TRUE, FALSE, <<TRUE>>, PlainEnd, "obj"))}

\* the aggregation_duration values a caller passes
AggregationInputs == TimeFrequencyEnum \cup {"NONE"}

\* the feature filters of a query: [monitoring_features, parent_features]
FeatureFilters ==
    {<<NoneList, NoneList>>,
     <<ListOf(<< <<"A", "-", "1">>, <<"B", "-", "2">> >>), ListOf(<< <<"A", "-", "9">> >>)>>}

TranslateQueries ==
    {[NoQuery EXCEPT !.monitoring_features = f[1],
                     !.parent_features = f[2],
                     !.observed_property_variables = v,
                     !.aggregation_duration = a,
                     !.statistic = st,
                     !.datasource = d] :
        f \in FeatureFilters,
        v \in {NoneList, ListOf(<<"Aluminum", "Acetate">>)},
        a \in AggregationInputs,
        st \in {NoneList, ListOf(<<"MAX", "MEAN">>)},
        d \in {NoneList, ListOf(<< <<"B">> >>)}}

\* the identifiers retrieve is asked for next to a translation
TranslateIds == {[NoQuery EXCEPT !.id = <<"B", "-", "A", "-">>]}

InitTranslate ==
    /\ plugin_access \in [Registered -> TranslateBehaviours]
    /\ synthesis_model \in SynthesisModels
    /\ InitIdle
    /\ codec = NotApplied

NextTranslate ==
    \/ \E q \in TranslateQueries : List(1, q)
    \/ Pull(1)
    \/ \E q \in TranslateIds : Retrieve(q)

\* one list() with feature, variable, aggregation and statistic filters and the
\* caller's pulls on it, and one retrieve(), on either facade
SpecTranslate == InitTranslate /\ [][NextTranslate]_vars

\* the plugins two interleaved merges are checked against: no list view, a list
\* call that raises, one object and a trailing payload of one message, one object
InterleaveBehaviours ==
    {Plugin(TRUE, FALSE, TRUE, FALSE, <<>>, PlainEnd, "obj"),
     Plugin(TRUE, TRUE, TRUE, TRUE, <<>>, PlainEnd, "obj"),
     Plugin(TRUE, TRUE, TRUE, FALSE, <<TRUE>>, [kind |-> "list", n |-> 1], "obj"),
     Plugin(TRUE, TRUE, TRUE, FALSE, <<TRUE>>, PlainEnd, "obj")}

InterleaveQueries ==
    {[NoQuery EXCEPT !.datasource = f] :
        f \in {NoneList, ListOf(<< <<"B">> >>), ListOf(<< <<"B">>, <<"A">> >>)}}

InitInterleaved ==
    /\ plugin_access \in [Registered -> InterleaveBehaviours]
    /\ InitCalls

\* each caller pulls its merger until it reports end-of-stream
NextInterleaved ==
    \/ \E c \in CallIds, q \in InterleaveQueries : List(c, q)
    \/ \E c \in CallIds : StopsSeen(c) = 0 /\ Pull(c)

\* two list() calls whose mergers are pulled in any interleaving
SpecInterleaved == InitInterleaved /\ [][NextInterleaved]_vars

\* the feature filters of a MonitoringFeature query: none, empty, ids of one
\* plugin only, ids of both
FeatureIdLists ==
    {NoneList, ListOf(<<>>),
     ListOf(<< <<"A", "-", "1">> >>),
     ListOf(<< <<"B", "-", "2">>, <<"B", "-", "A", "-">> >>),
     ListOf(<< <<"A", "-", "1">>, <<"B", "-", "2">> >>)}

FeatureQueries ==
    {[NoQuery EXCEPT !.monitoring_features = mf, !.parent_features = pf, !.datasource = d] :
        mf \in FeatureIdLists, pf \in FeatureIdLists,
        d \in {NoneList, ListOf(<< <<"B">>, <<"A">> >>)}}

InitFeatures ==
    /\ plugin_access \in [Registered -> InterleaveBehaviours]
    /\ InitCalls

NextFeatures ==
    \/ \E q \in FeatureQueries : List(1, q)
    \/ Pull(1)

\* one MonitoringFeature list() with feature filters and the caller's pulls on it
SpecFeatures == InitFeatures /\ [][NextFeatures]_vars

SinkBehaviours ==
    {Plugin(TRUE, FALSE, TRUE, FALSE, <<>>, PlainEnd, "obj"),
     Plugin(TRUE, TRUE, TRUE, FALSE, <<TRUE>>, [kind |-> "list", n |-> 1], "obj")}

InitSink ==
    /\ plugin_access \in [Registered -> SinkBehaviours]
    /\ InitCalls

NextSink ==
    \/ \E q \in InterleaveQueries : List(1, q)
    \/ Pull(1)
    \/ \E method \in SinkMethods, msg \in SinkTexts : Record(1, method, msg)

\* one merge, with recordings made on its iterator between the pulls
SpecSink == InitSink /\ [][NextSink]_vars

Next ==
    \/ \E q \in ListQueries : List(1, q)
    \/ Pull(1)

\* one list() and the caller's pulls on it, against every combination of plugins
Spec == Init /\ [][Next]_vars

----------------------------------------------------------------------------
(* Reading the history *)

\* the caller has pulled call c's merger to its end
Drained(c) == StopsSeen(c) >= 1

\* the objects call c's pulls returned, in order
Emitted(c) ==
    LET got == SelectSeq(results[c], LAMBDA r : r.kind = "item")
    IN [i \in DOMAIN got |-> got[i].item]

\* the objects call c's pulls returned while at position k of the resolved plugins
EmittedAt(c, k) ==
    LET got == SelectSeq(results[c], LAMBDA r : r.kind = "item" /\ r.pos = k - 1)
    IN [i \in DOMAIN got |-> got[i].item]

\* the result sequence of the plugin registered under key: every object its list
\* generator yields, in its own order (none when it has no list capability or
\* its list call raises)
PluginSequence(key) ==
    LET p == plugin_access[key]
    IN IF p.inViews /\ p.hasList /\ ~p.listRaises
       THEN [i \in DOMAIN p.items |-> Item(key, i, p.items[i])]
       ELSE <<>>

RECURSIVE Concatenation(_)
\* the result sequences of the given plugins, one after the other
Concatenation(keys) ==
    IF keys = <<>> THEN <<>> ELSE PluginSequence(Head(keys)) \o Concatenation(Tail(keys))

\* the messages of call c that carry the location of the plugin registered under key
MessagesFor(c, key) ==
    {i \in DOMAIN messages[c] : messages[c][i].where = Where(DatasourceId(key), synthesis_model)}

\* the positions of the resolved plugins that call c has visited so far
Visited(c) == {k \in DOMAIN it_plugins[c] : k - 1 <= plugin_index[c]}

----------------------------------------------------------------------------
(* Claims *)

\* C1: draining the merger returned by list() emits exactly the concatenation of
\* the resolved plugins' result sequences: plugin by plugin in resolved order,
\* every item each sequence yields, in its own order, none dropped, duplicated
\* or reordered.
C1_DrainEmitsConcatenation ==
    Drained(1) => Emitted(1) = Concatenation(it_plugins[1])

\* the plugin at position k of call c's resolved plugins raised during listing:
\* its list call raised, or its sequence raised while it was pulled
RaisedAt(c, k) ==
    \E i \in DOMAIN calls :
        /\ calls[i].call = c
        /\ calls[i].pos = k - 1
        /\ calls[i].op \in {"list", "next"}
        /\ calls[i].outcome = "raise"

ErrorsFor(c, key) == {i \in MessagesFor(c, key) : messages[c][i].level = ERROR}

\* C2: if a plugin p of the resolved set raises during listing, every plugin
\* after p is still visited and all of its items are emitted, and exactly one
\* ERROR message tagged [p's datasource id, entity-type name] is appended for p.
C2_FaultIsolatedWithOneError ==
    Drained(1) =>
        \A k \in DOMAIN it_plugins[1] :
            RaisedAt(1, k) =>
                /\ \A j \in DOMAIN it_plugins[1] :
                      j > k => /\ j \in Visited(1)
                               /\ EmittedAt(1, j) = PluginSequence(it_plugins[1][j])
                /\ Cardinality(ErrorsFor(1, it_plugins[1][k]))
                      = Cardinality({j \in DOMAIN it_plugins[1] :
                                        it_plugins[1][j] = it_plugins[1][k] /\ RaisedAt(1, j)})

\* C3: every pull on the merger returns an item or reports end-of-stream; no
\* plugin failure is propagated to the caller.
C3_PullNeverFails ==
    \A i \in DOMAIN results[1] : results[1][i].kind \in {"item", "stop"}

\* C4: a visited plugin whose capability map lacks the listing capability for the
\* requested entity type gets exactly one WARN "Plugin view does not exist" tagged
\* with it per visit and no other message, none of its capabilities is invoked, it
\* contributes no item, and the merge goes on to the next plugin (no pull ends
\* with the merger resting on it).
C4_MissingListViewWarnsAndContinues ==
    \A k \in Visited(1) :
        LET key == it_plugins[1][k]
            view == plugin_access[key]
        IN ~(view.inViews /\ view.hasList) =>
              /\ Cardinality(MessagesFor(1, key))
                    = Cardinality({j \in Visited(1) : it_plugins[1][j] = key})
              /\ \A i \in MessagesFor(1, key) :
                    /\ messages[1][i].level = WARN
                    /\ messages[1][i].msg = "Plugin view does not exist"
              /\ \A i \in DOMAIN calls : calls[i].key # key
              /\ \A i \in DOMAIN results[1] :
                    results[1][i].kind = "item" => results[1][i].item.src # key
              /\ plugin_index[1] # k - 1

\* a plugin without the list capability was skipped and a later plugin's item emitted
C4_Witness ==
    /\ Len(it_plugins[1]) = 2
    /\ plugin_access[it_plugins[1][1]].inViews
    /\ ~plugin_access[it_plugins[1][1]].hasList
    /\ Len(messages[1]) = 1
    /\ messages[1][1].level = WARN
    /\ Len(Emitted(1)) = 1
    /\ Emitted(1)[1].src = it_plugins[1][2]

\* the entries of filter f that name a registered plugin
KnownEntries(f) == {i \in DOMAIN f : \E j \in DOMAIN PluginKeys : PluginKeys[j] = f[i]}

\* C5: the plugin set resolved at construction is every registered plugin in
\* registration order when the query has no datasource filter, otherwise exactly
\* the filter's entries that name a registered plugin, in filter order; unknown
\* names are dropped and no message is recorded for them, and only resolved
\* plugins are ever invoked.
C5_ResolvedPluginSet ==
    constructed[1] =>
        LET f == query[1].datasource
            known == KnownEntries(f.v)
        IN /\ (f.isNone \/ f.v = <<>>) => it_plugins[1] = PluginKeys
           /\ ~(f.isNone \/ f.v = <<>>) =>
                 /\ Len(it_plugins[1]) = Cardinality(known)
                 /\ \A i \in known :
                       it_plugins[1][Cardinality({j \in known : j <= i})] = f.v[i]
           /\ results[1] = <<>> => messages[1] = <<>>
           /\ \A i \in DOMAIN messages[1] :
                 \E k \in DOMAIN it_plugins[1] :
                    messages[1][i].where = Where(DatasourceId(it_plugins[1][k]), synthesis_model)
           /\ \A i \in DOMAIN calls :
                 \E k \in DOMAIN it_plugins[1] : calls[i].key = it_plugins[1][k]

\* a filter naming the plugins against registration order, drained
C5_Witness ==
    /\ Drained(1)
    /\ query[1].datasource = ListOf(<< <<"B">>, <<"A">> >>)
    /\ it_plugins[1] = << <<"B">>, <<"A">> >>
    /\ Len(Emitted(1)) >= 2

\* a filter naming an unknown datasource before a known one, drained
C5_WitnessUnknownDropped ==
    /\ Drained(1)
    /\ query[1].datasource = ListOf(<<UnknownKey, <<"B">> >>)
    /\ it_plugins[1] = << <<"B">> >>

C7_ListIsLazy ==
    (constructed[1] /\ results[1] = <<>>) =>
        /\ \A i \in DOMAIN calls : calls[i].call # 1
        /\ messages[1] = <<>>
        /\ model_access_iterator[1].isNone
        /\ plugin_index[1] = -1

\* list() has returned for a query that resolves to plugins with list capabilities
C7_Witness ==
    /\ constructed[1]
    /\ results[1] = <<>>
    /\ Len(it_plugins[1]) = 2
    /\ \A k \in DOMAIN it_plugins[1] :
          /\ plugin_access[it_plugins[1][k]].inViews
          /\ plugin_access[it_plugins[1][k]].hasList
          /\ plugin_access[it_plugins[1][k]].items # <<>>

\* before the i-th recorded invocation, the plugin at plugin index pos of call c
\* was skipped, faulted, or its sequence signalled exhaustion
DoneBefore(c, pos, i) ==
    \/ ~(plugin_access[it_plugins[c][pos + 1]].inViews
         /\ plugin_access[it_plugins[c][pos + 1]].hasList)
    \/ \E j \in 1..(i - 1) :
          /\ calls[j].call = c
          /\ calls[j].pos = pos
          /\ \/ calls[j].op = "list" /\ calls[j].outcome = "raise"
             \/ calls[j].op = "next" /\ calls[j].outcome \in {"stop", "raise"}

\* C8: plugins are visited strictly one at a time in resolved order: the list
\* capability of the plugin at position k+1 is invoked only after the plugin at
\* position k has been skipped, has faulted, or its sequence has signalled
\* exhaustion, and a sequence is pulled only while it is the last one opened.
C8_OnePluginAtATime ==
    \A i \in DOMAIN calls :
        calls[i].call = 1 =>
            /\ \A j \in 1..(i - 1) : calls[j].call = 1 => calls[j].pos <= calls[i].pos
            /\ (calls[i].op = "list" /\ calls[i].pos >= 1) => DoneBefore(1, calls[i].pos - 1, i)

\* the registered plugin whose prefix starts the composite identifier, if any:
\* the identifier is the prefix alone or the prefix followed by the separator
PrefixOwners(id) == {k \in Registered : id = k \/ StartsWith(id, k \o <<"-">>)}

\* C9: retrieve on a composite id whose prefix names no registered plugin returns
\* a response with no data and exactly one ERROR message, raises no exception and
\* invokes no plugin capability.
C9_UnknownPrefixOneError ==
    (retrieved.kind # "none" /\ retrieved.asked.id # <<>> /\ PrefixOwners(retrieved.asked.id) = {}) =>
        /\ retrieved.kind = "response"
        /\ retrieved.data.isNone
        /\ Len(retrieved.messages) = 1
        /\ retrieved.messages[1].level = ERROR
        /\ calls = <<>>

\* retrieve("X-7") has returned, X naming no registered plugin
C9_Witness ==
    /\ retrieved.kind = "response"
    /\ retrieved.asked.id = <<"X", "-", "7">>
    /\ retrieved.data.isNone
    /\ Len(retrieved.messages) = 1
    /\ retrieved.messages[1].level = ERROR

\* C10: retrieve on a composite id whose prefix names a registered plugin that
\* lacks the get capability for the requested entity type returns a response with
\* no data and exactly one WARN message, and raises no exception.
C10_MissingGetOneWarn ==
    \A k \in PrefixOwners(retrieved.asked.id) :
        (retrieved.kind # "none"
         /\ ~(plugin_access[k].inViews /\ plugin_access[k].hasGet)) =>
            /\ retrieved.kind = "response"
            /\ retrieved.data.isNone
            /\ Len(retrieved.messages) = 1
            /\ retrieved.messages[1].level = WARN

\* the composite identifier without the leading prefix of plugin k and the separator
LocalIdOf(id, k) == SubSeq(id, Len(k) + 2, Len(id))

\* C11: retrieve on a composite id whose prefix names a registered plugin with the
\* get capability invokes get exactly once, on that plugin and no other, with a
\* query whose id is the composite id without the leading "prefix-" and whose
\* datasource filter is the one-element list of that plugin's datasource id; when
\* get returns, the response's data is what it returned (possibly none).
C11_RetrieveConsultsOnePlugin ==
    \A k \in Registered :
        (/\ retrieved.kind # "none"
         /\ StartsWith(retrieved.asked.id, k \o <<"-">>)
         /\ plugin_access[k].inViews
         /\ plugin_access[k].hasGet) =>
            /\ Len(calls) = 1
            /\ calls[1].op = "get"
            /\ calls[1].key = k
            /\ calls[1].arg.id = LocalIdOf(retrieved.asked.id, k)
            /\ calls[1].arg.datasource = ListOf(<<DatasourceId(k)>>)
            /\ plugin_access[k].getResult # "raise" =>
                  /\ retrieved.kind = "response"
                  /\ retrieved.messages = <<>>
                  /\ plugin_access[k].getResult = "none" => retrieved.data = NoData
                  /\ plugin_access[k].getResult = "obj" =>
                        retrieved.data = Data(k, LocalIdOf(retrieved.asked.id, k))

\* retrieve("B-7-") has returned what plugin B's get returned for local id "7-"
C11_Witness ==
    /\ retrieved.kind = "response"
    /\ retrieved.asked.id = <<"B", "-", "7", "-">>
    /\ retrieved.data = Data(<<"B">>, <<"7", "-">>)
    /\ Len(calls) = 1
    /\ calls[1].key = <<"B">>

\* the plugin's get call raised
GetRaised == \E i \in DOMAIN calls : calls[i].op = "get" /\ calls[i].outcome = "raise"

\* C12: when the consulted plugin's get call raises, retrieve still returns a
\* response: no data, at least one message, no exception to the caller.
C12_RetrieveGetFaultDegrades ==
    (retrieved.kind # "none" /\ GetRaised) =>
        /\ retrieved.kind = "response"
        /\ retrieved.data.isNone
        /\ Len(retrieved.messages) >= 1

\* C13: for every registered prefix p and every local id (local ids that contain
\* the separator or the text "p-" included), decomposing the composite "p-local"
\* yields (p, local): retrieve looks up p and hands local to the plugin, and the
\* identifiers synthesized for p from the one composite are exactly [local].
C13_IdentifierRoundTrip ==
    /\ (codec.kind = "id" /\ codec.fn = "retrieve") => codec.out = <<codec.prefix, codec.local>>
    /\ (codec.kind = "id" /\ codec.fn = "query") => codec.out = <<codec.local>>

\* "B-B--" has been decomposed by retrieve: the local id holds "B-" and a separator
C13_Witness ==
    /\ codec.kind = "id"
    /\ codec.fn = "retrieve"
    /\ codec.prefix = <<"B">>
    /\ codec.local = <<"B", "-", "-">>
    /\ codec.out = << <<"B">>, <<"B", "-", "-">> >>

\* the entry has a separator
HasSeparator(e) == \E i \in DOMAIN e : e[i] = "-"
\* where the entry's first separator is
FirstSeparator(e) == CHOOSE i \in DOMAIN e : e[i] = "-" /\ \A j \in 1..(i - 1) : e[j] # "-"
\* the entry's prefix is p: p is what stands before its first separator
HasPrefix(e, p) == HasSeparator(e) /\ SubSeq(e, 1, FirstSeparator(e) - 1) = p
\* the local ids of the entries of values whose prefix is p, in input order
LocalIdsFor(values, p) ==
    LET sel == SelectSeq(values, LAMBDA e : HasPrefix(e, p))
    IN [i \in DOMAIN sel |-> SubSeq(sel[i], FirstSeparator(sel[i]) + 1, Len(sel[i]))]

\* C14: _synthesize_query_identifiers applied to a sequence of entries, or to the
\* same entries joined by commas, returns in input order the local ids of exactly
\* the entries whose prefix equals the given prefix; every other entry (another
\* prefix, a prefix that starts with the given one, no separator) is dropped.
C14_ExtractMany ==
    (codec.kind = "list" /\ codec.fn \in {"sequence", "string"}) =>
        codec.out = LocalIdsFor(codec.values, codec.prefix)

\* ["AB-1", "A-B-2"] joined by a comma and synthesized for prefix A
C14_Witness ==
    /\ codec.kind = "list"
    /\ codec.fn = "string"
    /\ codec.prefix = <<"A">>
    /\ codec.values = << <<"A", "B", "-", "1">>, <<"A", "-", "B", "-", "2">> >>
    /\ codec.out = << <<"B", "-", "2">> >>

\* the plugin at position k of call c's resolved plugins has been handed a
\* synthesized query: its list capability was invoked
ListedAt(c, k) == {i \in DOMAIN calls : calls[i].call = c /\ calls[i].op = "list"
                                         /\ calls[i].pos = k - 1}

\* the attribute-mapping capability was invoked for the plugin at position k
MappedAttributesAt(c, k) ==
    {i \in DOMAIN calls : calls[i].call = c /\ calls[i].op = "get_mapped_attributes"
                         /\ calls[i].pos = k - 1}

\* C15: on the timeseries facade every visited plugin is handed a synthesized
\* query; for an input aggregation_duration other than NONE it carries DAY and
\* the statistic translated through the plugin's attribute mapping; for input
\* NONE it carries NONE and the attribute-mapping capability is not invoked.
C15_AggregationNormalized ==
    synthesis_model = "MeasurementTimeseriesTVPObservation" =>
        \A k \in Visited(1) :
            LET view == plugin_access[it_plugins[1][k]]
            IN /\ ListedAt(1, k) # {}
               /\ \A i \in ListedAt(1, k) :
                     IF query[1].aggregation_duration # "NONE"
                     THEN /\ calls[i].arg.aggregation_duration = "DAY"
                          /\ Truthy(query[1].statistic) =>
                                calls[i].arg.statistic
                                   = ListOf(MapThrough(view.stat, query[1].statistic.v))
                     ELSE /\ calls[i].arg.aggregation_duration = "NONE"
                          /\ MappedAttributesAt(1, k) = {}

\* the broker variables of the query that the plugin registered under key has no mapping for
Unmapped(c, key) ==
    {i \in DOMAIN query[c].observed_property_variables.v :
        plugin_access[key].opv[query[c].observed_property_variables.v[i]] = <<>>}

\* C16: when a timeseries query names a broker variable that a visited plugin p
\* has no mapping for, p's listing is still invoked, with a query that carries
\* the plugin variables of the mapped ones only (none if nothing maps), and no
\* ERROR message is recorded; plugins that have the mapping get theirs.
C16_TranslationGapOmits ==
    (synthesis_model = "MeasurementTimeseriesTVPObservation"
     /\ Truthy(query[1].observed_property_variables)) =>
        /\ \A k \in Visited(1) :
              LET view == plugin_access[it_plugins[1][k]]
              IN /\ ListedAt(1, k) # {}
                 /\ \A i \in ListedAt(1, k) :
                       calls[i].arg.observed_property_variables
                          = ListOf(MapThrough(view.opv, query[1].observed_property_variables.v))
        /\ (\E k \in Visited(1) : Unmapped(1, it_plugins[1][k]) # {}) =>
              \A i \in DOMAIN messages[1] : messages[1][i].level # ERROR

\* the query synthesized for the plugin registered under key from query q
TranslationOf(q, key) ==
    [synthesize_query(synthesis_model, key, plugin_access[key], q).query
        EXCEPT !.datasource = ListOf(<<DatasourceId(key)>>)]

\* C17: the caller's query is never modified: every step after list() leaves
\* each field of the query echoed in the response as it was, the query echoed by
\* retrieve() is the query it was called with, and the query each plugin's list
\* is handed is the translation of the original query, not of an earlier
\* plugin's translation.
C17_QueryNeverModified ==
    [][/\ constructed[1] => query'[1] = query[1]
       /\ retrieved'.kind = "response" => retrieved'.query = retrieved'.asked
       /\ \A i \in DOMAIN calls' :
             (calls'[i].call = 1 /\ calls'[i].op = "list") =>
                 calls'[i].arg = TranslationOf(query'[1], calls'[i].key)]_vars

\* a list() with feature filters drained over both plugins, each handed its own
\* translation, and a retrieve() answered
C17_Witness ==
    /\ Drained(1)
    /\ synthesis_model = "MonitoringFeature"
    /\ Truthy(query[1].monitoring_features)
    /\ Truthy(query[1].parent_features)
    /\ Len(it_plugins[1]) = 2
    /\ ListedAt(1, 1) # {} /\ ListedAt(1, 2) # {}
    /\ \A i \in ListedAt(1, 2) : calls[i].arg.monitoring_features = ListOf(<< <<"2">> >>)
    /\ retrieved.kind = "response"
    /\ ~retrieved.data.isNone

RECURSIVE SoloRun(_, _, _)
\* n pulls on a merger that no other call is interleaved with: the iterator's
\* fields after them and what each pull handed back
SoloRun(env, s, n) ==
    IF n = 0 THEN [s |-> s, results |-> <<>>]
    ELSE LET before == SoloRun(env, s, n - 1)
             r == NextLoop(env, before.s)
         IN [s |-> r.s, results |-> Append(before.results, r.result)]

\* C18: when two mergers from separate list() calls are pulled in any
\* interleaving, each one has emitted the items and recorded the messages that
\* the same number of pulls gives when it is drained alone, and every message is
\* tagged with the plugin its own merger was visiting when it was appended.
C18_CallsDoNotLeak ==
    \A c \in CallIds :
        constructed[c] =>
            LET solo == SoloRun(Env(c), Constructed(query[c], NoWhere, <<>>), Len(results[c]))
            IN /\ results[c] = solo.results
               /\ messages[c] = solo.s.messages
               /\ \A i \in DOMAIN messages[c] :
                     messages[c][i].where
                        = Where(DatasourceId(it_plugins[c][emitted_at[c][i] + 1]), synthesis_model)

\* both mergers drained with their pulls interleaved, each holding a message,
\* one appended while the other merger was visiting another plugin
C18_Witness ==
    /\ Drained(1) /\ Drained(2)
    /\ messages[1] # <<>> /\ messages[2] # <<>>
    /\ Emitted(1) # <<>> /\ Emitted(2) # <<>>
    /\ it_plugins[1] # it_plugins[2]
    /\ \E i, j, k \in DOMAIN calls :
          /\ i < j /\ j < k
          /\ calls[i].call = 1 /\ calls[j].call = 2 /\ calls[k].call = 1
          /\ calls[j].key # calls[k].key
          /\ calls[k].op = "next" /\ calls[k].outcome = "stop"
          /\ Len(messages[1]) > calls[k].seen

\* the invocations of call c after the i-th recorded one
LaterCalls(c, i) == {j \in DOMAIN calls : j > i /\ calls[j].call = c}

\* how many messages call c's response held when the first invocation after the
\* i-th was made (all of them when there was none)
SeenByNext(c, i) ==
    IF LaterCalls(c, i) = {} THEN Len(messages[c])
    ELSE calls[CHOOSE j \in LaterCalls(c, i) : \A k \in LaterCalls(c, i) : j <= k].seen

\* C19: when a plugin's sequence signals exhaustion with a trailing payload of n
\* messages, the next n messages of the response are WARNs with the payload's
\* texts in payload order, tagged with that plugin's location and appended
\* before any later capability is invoked; exhaustion without a payload appends
\* no message for that plugin.
C19_TrailingPayloadSurfaced ==
    \A i \in DOMAIN calls :
        LET key == calls[i].key
            end == plugin_access[key].end
            n == IF end.kind = "list" THEN end.n ELSE 0
            seen == calls[i].seen
        IN (/\ calls[i].call = 1
            /\ calls[i].op = "next"
            /\ calls[i].outcome = "stop"
            /\ end.kind \in {"list", "return", "empty_args"}) =>
               /\ SeenByNext(1, i) >= seen + n
               /\ \A m \in 1..n :
                     /\ messages[1][seen + m]
                           = SynthesisMessage(PayloadMessage(m), WARN,
                                              Where(DatasourceId(key), synthesis_model))
                     /\ emitted_at[1][seen + m] = calls[i].pos
               /\ \A m \in (seen + n + 1)..SeenByNext(1, i) : emitted_at[1][m] > calls[i].pos

\* the first plugin's sequence ended with a payload of two messages, both were
\* surfaced, and then the second plugin's listing was invoked
C19_Witness ==
    /\ Len(it_plugins[1]) = 2
    /\ plugin_access[it_plugins[1][1]].end = [kind |-> "list", n |-> 2]
    /\ plugin_access[it_plugins[1][1]].items # <<>>
    /\ Len(messages[1]) >= 2
    /\ messages[1][1].msg = PayloadMessage(1)
    /\ messages[1][2].msg = PayloadMessage(2)
    /\ \E i \in DOMAIN calls : calls[i].op = "list" /\ calls[i].pos = 1 /\ calls[i].seen = 2

\* C20: every message of a merge carries the location [datasource id of the
\* plugin at the _plugin_index it was appended at, name of the requested entity
\* type], and a pull leaves the messages already in the list where and as they
\* were.
C20_MessagesCarryActiveLocation ==
    [][/\ Len(messages[1]) <= Len(messages'[1])
       /\ \A i \in DOMAIN messages[1] : messages'[1][i] = messages[1][i]
       /\ \A i \in DOMAIN messages'[1] :
             /\ emitted_at'[1][i] + 1 \in DOMAIN it_plugins'[1]
             /\ messages'[1][i].where
                   = Where(DatasourceId(it_plugins'[1][emitted_at'[1][i] + 1]), synthesis_model')]_vars

\* an ERROR appended while the first plugin was visited and a WARN while the
\* second was, each tagged with its own plugin
C20_Witness ==
    /\ Len(messages[1]) = 2
    /\ emitted_at[1] = <<0, 1>>
    /\ messages[1][1].level = ERROR
    /\ messages[1][2].level = WARN
    /\ messages[1][1].where = Where(DatasourceId(it_plugins[1][1]), synthesis_model)
    /\ messages[1][2].where = Where(DatasourceId(it_plugins[1][2]), synthesis_model)
    /\ messages[1][1].where # messages[1][2].where

----------------------------------------------------------------------------
(* C21 *)

\* the list capability invocations of merge c, as positions in calls
ListCalls(c) == {i \in DOMAIN calls : calls[i].call = c /\ calls[i].op = "list"}

\* C21: every query handed to a plugin's list capability during a merge has its
\* datasource filter forced to the one-element list naming that plugin, whatever
\* datasource filter (none, one name, several names) the caller's query carried
C21_DatasourceFilterForced ==
    \A c \in CallIds : \A i \in ListCalls(c) :
        /\ calls[i].key = it_plugins[c][calls[i].pos + 1]
        /\ calls[i].arg.datasource = ListOf(<<DatasourceId(calls[i].key)>>)

\* a merge whose caller named several datasources has handed a query to the
\* list capability of two plugins
C21_Witness ==
    /\ constructed[1]
    /\ ~query[1].datasource.isNone
    /\ Len(query[1].datasource.v) = 2
    /\ Cardinality({calls[i].key : i \in ListCalls(1)}) = 2

\* a merge whose caller passed no datasource filter has listed a plugin
C21_WitnessNoFilter ==
    /\ constructed[1]
    /\ query[1].datasource.isNone
    /\ ListCalls(1) # {}

----------------------------------------------------------------------------
(* C22 *)

\* the ambient location before any call of a behaviour: nothing has set it
AmbientBeforeCalls == NoWhere

\* C22: after a merge over any number of plugins has been drained to exhaustion
\* the ambient location context holds the value it had before the call, not the
\* location of a visited plugin (one merge; the pulls are the only steps that
\* touch the ambient location)
C22_AmbientLocationRestored ==
    Drained(1) => basin3d_where = AmbientBeforeCalls

\* the same for retrieve(): once it has returned, the ambient location context
\* holds the value it had before the call
C22_AmbientRestoredAfterRetrieve ==
    retrieved.kind = "response" => basin3d_where = AmbientBeforeCalls

----------------------------------------------------------------------------
(* C23 *)

\* the severity a recording method supplies
LevelOf(method) ==
    CASE method = "warn" -> WARN
      [] method = "error" -> ERROR
      [] method = "critical" -> CRITICAL
      [] OTHER -> NoLevel

\* C23: each warn, error or critical call on a merger appends exactly one
\* SynthesisMessage to the merger's response, with that severity, the given text
\* and the location active at the call; an info call (no severity supplied)
\* appends nothing
C23_RecordingAppendsOneMessage ==
    \A i \in DOMAIN recorded :
        LET r == recorded[i]
        IN IF r.method = "info"
           THEN r.after = r.before
           ELSE /\ r.after = r.before + 1
                /\ r.after <= Len(messages[r.call])
                /\ messages[r.call][r.after] =
                       SynthesisMessage(r.msg, LevelOf(r.method), r.where)

\* a critical recording made while a plugin is being listed, and an info
\* recording made on a response that already holds a message
C23_Witness ==
    /\ \E i \in DOMAIN recorded :
          recorded[i].method = "critical" /\ ~recorded[i].where.isNone
    /\ \E i \in DOMAIN recorded :
          recorded[i].method = "info" /\ recorded[i].before >= 1

----------------------------------------------------------------------------
(* C24 *)

\* translating call c's query for the plugin at position k of the resolved
\* plugins raises
TranslationFails(c, k) ==
    LET key == it_plugins[c][k]
    IN /\ HasListView(plugin_access[key])
       /\ synthesize_query(synthesis_model, key, plugin_access[key], query[c]).raised

\* the messages call c appended while at position k
MessagesAt(c, k) == {i \in DOMAIN messages[c] : emitted_at[c][i] = k - 1}

\* call c has reached position k: a capability was invoked or a message appended there
Reached(c, k) ==
    \/ MessagesAt(c, k) # {}
    \/ \E i \in DOMAIN calls : calls[i].call = c /\ calls[i].pos = k - 1

\* C24: a failure raised while the query is translated for plugin p (by p's
\* variable-mapping capability, or inside synthesize_query itself) is handled
\* like a plugin fault: exactly one message is appended for p, an ERROR tagged
\* with p; p's list capability is not invoked; p contributes no items; and the
\* merge goes on to the next plugin within the same pull
C24_TranslationFailureIsolated ==
    \A k \in Visited(1) :
        TranslationFails(1, k) =>
            /\ \E i \in MessagesAt(1, k) :
                  /\ MessagesAt(1, k) = {i}
                  /\ messages[1][i].level = ERROR
                  /\ messages[1][i].where =
                         Where(DatasourceId(it_plugins[1][k]), synthesis_model)
            /\ \A j \in ListCalls(1) : calls[j].pos # k - 1
            /\ EmittedAt(1, k) = <<>>
            /\ plugin_index[1] >= k
            /\ k < Len(it_plugins[1]) => Reached(1, k + 1)

\* the variable-mapping capability of the first of two plugins raised, and the
\* merge was drained
C24_Witness ==
    /\ Drained(1)
    /\ Len(it_plugins[1]) = 2
    /\ TranslationFails(1, 1)
    /\ \E i \in DOMAIN calls :
          /\ calls[i].call = 1 /\ calls[i].pos = 0
          /\ calls[i].op = "get_observed_properties" /\ calls[i].outcome = "raise"
    /\ Reached(1, 2)

----------------------------------------------------------------------------
(* C25 *)

\* the ids of a feature filter
IdsIn(f) == {f.v[i] : i \in DOMAIN f.v}

\* a non-empty feature filter that holds no id with the prefix of the plugin
NoIdOf(key, f) ==
    /\ Truthy(f)
    /\ \A id \in IdsIn(f) : ~StartsWith(id, Compose(IdPrefix(key), <<>>))

\* the translated filter g holds local ids of the plugin's own broker ids in f only
OwnIdsOnly(key, f, g) ==
    /\ ~g.isNone
    /\ \A local \in IdsIn(g) : Compose(IdPrefix(key), local) \in IdsIn(f)

\* C25: a plugin of the resolved set is visited even when the query's non-empty
\* monitoring_features (or parent_features) holds no id with its prefix: its list
\* capability is still invoked, with that field translated to the empty list;
\* a translated field never holds an id that belongs to another plugin
C25_VisitedWithEmptyTranslation ==
    \A k \in Visited(1) :
        LET key == it_plugins[1][k]
        IN HasListView(plugin_access[key]) =>
              \E j \in ListCalls(1) :
                  /\ calls[j].pos = k - 1
                  /\ calls[j].key = key
                  /\ NoIdOf(key, query[1].monitoring_features) =>
                         calls[j].arg.monitoring_features = ListOf(<<>>)
                  /\ NoIdOf(key, query[1].parent_features) =>
                         calls[j].arg.parent_features = ListOf(<<>>)
                  /\ Truthy(query[1].monitoring_features) =>
                         OwnIdsOnly(key, query[1].monitoring_features,
                                    calls[j].arg.monitoring_features)
                  /\ Truthy(query[1].parent_features) =>
                         OwnIdsOnly(key, query[1].parent_features,
                                    calls[j].arg.parent_features)

\* plugin A was listed with both feature filters translated to the empty list:
\* the query named ids of plugin B only
C25_Witness ==
    /\ constructed[1]
    /\ NoIdOf(<<"A">>, query[1].monitoring_features)
    /\ NoIdOf(<<"A">>, query[1].parent_features)
    /\ \E j \in ListCalls(1) :
          /\ calls[j].key = <<"A">>
          /\ calls[j].arg.monitoring_features = ListOf(<<>>)
          /\ calls[j].arg.parent_features = ListOf(<<>>)

----------------------------------------------------------------------------
(* C26 *)

\* every plugin of call c is finite and each of its calls returns: neither its
\* list call nor a step of its generator raises
PluginCallsReturn(c) ==
    \A k \in DOMAIN it_plugins[c] :
        LET p == plugin_access[it_plugins[c][k]]
        IN ~p.listRaises /\ p.end.kind # "raise"

\* the objects in the sequences of the resolved plugins of call c, all together
TotalItems(c) == Len(Concatenation(it_plugins[c]))

\* the first pull of call c that reported end-of-stream, 0 when none has
FirstStop(c) ==
    LET stops == {i \in DOMAIN results[c] : results[c][i].kind = "stop"}
    IN IF stops = {} THEN 0 ELSE CHOOSE i \in stops : \A j \in stops : i <= j

\* C26: when every plugin's sequence is finite and every plugin call returns,
\* each pull returns an item or end-of-stream, having advanced over no more than
\* the plugins that remained, and end-of-stream is reported by pull number
\* (total items + 1) at the latest
C26_PullsTerminate ==
    (constructed[1] /\ PluginCallsReturn(1)) =>
        /\ \A i \in DOMAIN results[1] : results[1][i].kind \in {"item", "stop"}
        /\ \A i \in DOMAIN results[1] :
              (FirstStop(1) = 0 \/ i <= FirstStop(1)) =>
                  results[1][i].pos <= Len(it_plugins[1])
        /\ Len(results[1]) > TotalItems(1) =>
              (FirstStop(1) # 0 /\ FirstStop(1) <= TotalItems(1) + 1)

====
